---- MODULE Spec2Model ----
(***************************************************************************)
(* Model of torchgeo.trainers.base.BaseTask (src/torchgeo/trainers/base.py) *)
(* One task object is followed from class instantiation through __init__   *)
(* (save_hyperparameters, configure_losses, configure_metrics,             *)
(* configure_models) and then through calls of forward and                 *)
(* configure_optimizers made by the training loop.                         *)
(*                                                                         *)
(* The subclass is an input: which hooks it overrides, what each override  *)
(* does, whether it overrides monitor, and which constructor arguments it  *)
(* passes on as hyperparameters.  Learning rates are integers in units of  *)
(* 1e-3.  AdamW and ReduceLROnPlateau are the imported constructors; they  *)
(* are modelled by the arguments the source hands them, on values they     *)
(* accept.                                                                 *)
(***************************************************************************)
EXTENDS Integers, Sequences, FiniteSets, TLC

VARIABLES cls, ctorArgs, pc, idx, calls, model, hparams, monitor, err,
          lastForward, lastConfig, nextId

vars == <<cls, ctorArgs, pc, idx, calls, model, hparams, monitor, err,
          lastForward, lastConfig, nextId>>

\* ---------------------------------------------------------------- bounds
MaxArgs == 2          \* longest positional argument list passed to forward
MaxOptimizers == 2    \* optimizers created before the model stops counting

\* ------------------------------------------------------------ environment
Hooks == {"configure_losses", "configure_metrics", "configure_models"}

\* what a subclass override of a hook may do; "inherited" = not overridden
Bodies == {"pass", "assign_sum", "assign_scale", "assign_none", "raise",
           "call_forward"}

ArgVals == {1, 2}
LrVals == {1, 3}
PatienceVals == {0, 5}
KwargKeys == {"bias"}
HparamKeys == {"lr", "patience"}

Unset == "Unset"      \* attribute model was never assigned
None == "None"        \* attribute model was assigned None
Models == {"m_sum", "m_scale"}

Return(v) == [kind |-> "return", value |-> v]
Raise(e) == [kind |-> "raise", err |-> e]

NoErr == [at |-> "none", type |-> "none"]
NoCall == [called |-> FALSE]

RECURSIVE SumSeq(_)
SumSeq(s) == IF s = <<>> THEN 0 ELSE Head(s) + SumSeq(Tail(s))

\* the callable held in the model slot: two stand-in networks
\*   m_sum(*xs, bias=0)  = sum(xs) + bias
\*   m_scale(x)          = 2 * x      (any other signature: TypeError)
ModelCall(m, args, kwargs) ==
  IF m = "m_sum"
  THEN Return(SumSeq(args) + (IF "bias" \in DOMAIN kwargs THEN kwargs["bias"] ELSE 0))
  ELSE IF Len(args) = 1 /\ DOMAIN kwargs = {}
       THEN Return(2 * args[1])
       ELSE Raise("TypeError")

\* self.parameters(): the parameters registered on the module
Parameters(m) ==
  IF m = "m_sum" THEN {"sum.weight"}
  ELSE IF m = "m_scale" THEN {"scale.weight", "scale.bias"}
  ELSE {}

Classes ==
  [configure_losses : Bodies \cup {"inherited"},
   configure_metrics : Bodies \cup {"inherited"},
   configure_models : Bodies \cup {"inherited"},
   monitor : {"inherited", "val_acc"}]

\* constructor arguments a subclass hands to save_hyperparameters
CtorArgSets ==
  {h \in UNION {[K -> LrVals \cup PatienceVals] : K \in SUBSET HparamKeys} :
     /\ ("lr" \in DOMAIN h => h["lr"] \in LrVals)
     /\ ("patience" \in DOMAIN h => h["patience"] \in PatienceVals)}

ArgLists == UNION {[1..n -> ArgVals] : n \in 0..MaxArgs}
KwargMaps == UNION {[K -> ArgVals] : K \in SUBSET KwargKeys}

\* ----------------------------------------------------------- class level
\* monitor = "val_loss"
BaseMonitor == "val_loss"

\* attribute lookup of self.monitor through the class hierarchy
MonitorOf(c) == IF c.monitor = "inherited" THEN BaseMonitor ELSE c.monitor

AbstractMethods_none(c) == {}

\* __abstractmethods__: abstract methods the class has not overridden
AbstractMethods(c) ==
  IF c.configure_models = "inherited" THEN {"configure_models"} ELSE {}

\* body that runs for hook h: the override, or the base class no-op
BodyOf(c, h) == IF c[h] = "inherited" THEN "pass" ELSE c[h]

InitSequence_models_first ==
  <<"save_hyperparameters", "configure_models", "configure_losses",
    "configure_metrics">>

InitSequence_no_models ==
  <<"save_hyperparameters", "configure_losses", "configure_metrics">>

\* the statements of __init__ after super().__init__()
InitSequence ==
  <<"save_hyperparameters", "configure_losses", "configure_metrics",
    "configure_models">>

\* ------------------------------------------------------------- forward
forward_drops_kwargs(slot, args, kwargs) ==
  IF slot = Unset THEN Raise("AttributeError")
  ELSE IF slot = None THEN Raise("TypeError")
  ELSE ModelCall(slot, args, <<>>)

forward_none_when_unset(slot, args, kwargs) ==
  IF slot = Unset THEN Return(0)
  ELSE IF slot = None THEN Raise("TypeError")
  ELSE ModelCall(slot, args, kwargs)

\* return self.model(*args, **kwargs)
forward(slot, args, kwargs) ==
  IF slot = Unset THEN Raise("AttributeError")
  ELSE IF slot = None THEN Raise("TypeError")
  ELSE ModelCall(slot, args, kwargs)

\* ------------------------------------------------- configure_optimizers
AdamW(id, params, lr) == [id |-> id, params |-> params, lr |-> lr]

ReduceLROnPlateau(optimizer, patience) ==
  [optimizer |-> optimizer, patience |-> patience]

configure_optimizers_default_lr(hp, mon, params, id) ==
  IF "lr" \notin DOMAIN hp THEN Raise("KeyError")
  ELSE LET optimizer == AdamW(id, params, 1) IN
    IF "patience" \notin DOMAIN hp THEN Raise("KeyError")
    ELSE LET scheduler == ReduceLROnPlateau(optimizer, hp["patience"]) IN
      Return([optimizer |-> optimizer,
              lr_scheduler |-> [scheduler |-> scheduler, monitor |-> mon]])

configure_optimizers_get_default(hp, mon, params, id) ==
  LET lr == IF "lr" \in DOMAIN hp THEN hp["lr"] ELSE 1
      pt == IF "patience" \in DOMAIN hp THEN hp["patience"] ELSE 10
      optimizer == AdamW(id, params, lr)
      scheduler == ReduceLROnPlateau(optimizer, pt)
  IN Return([optimizer |-> optimizer,
             lr_scheduler |-> [scheduler |-> scheduler, monitor |-> mon]])

configure_optimizers_fixed_monitor(hp, mon, params, id) ==
  IF "lr" \notin DOMAIN hp THEN Raise("KeyError")
  ELSE LET optimizer == AdamW(id, params, hp["lr"]) IN
    IF "patience" \notin DOMAIN hp THEN Raise("KeyError")
    ELSE LET scheduler == ReduceLROnPlateau(optimizer, hp["patience"]) IN
      Return([optimizer |-> optimizer,
              lr_scheduler |-> [scheduler |-> scheduler, monitor |-> "val_loss"]])

\* optimizer = AdamW(self.parameters(), lr=self.hparams["lr"])
\* scheduler = ReduceLROnPlateau(optimizer, patience=self.hparams["patience"])
\* return {"optimizer": ..., "lr_scheduler": {"scheduler": ..., "monitor": ...}}
configure_optimizers(hp, mon, params, id) ==
  IF "lr" \notin DOMAIN hp THEN Raise("KeyError")
  ELSE LET optimizer == AdamW(id, params, hp["lr"]) IN
    IF "patience" \notin DOMAIN hp THEN Raise("KeyError")
    ELSE LET scheduler == ReduceLROnPlateau(optimizer, hp["patience"]) IN
      Return([optimizer |-> optimizer,
              lr_scheduler |-> [scheduler |-> scheduler, monitor |-> mon]])

\* ------------------------------------------------------------- __init__
ProbeArgs == <<1>>    \* arguments an override uses when it calls forward

\* effect of running one hook body on the task
HookEffect(body, slot) ==
  IF body = "assign_sum" THEN [model |-> "m_sum", raised |-> "none", fwd |-> NoCall]
  ELSE IF body = "assign_scale" THEN [model |-> "m_scale", raised |-> "none", fwd |-> NoCall]
  ELSE IF body = "assign_none" THEN [model |-> None, raised |-> "none", fwd |-> NoCall]
  ELSE IF body = "raise" THEN [model |-> slot, raised |-> "RuntimeError", fwd |-> NoCall]
  ELSE IF body = "call_forward"
       THEN LET r == forward(slot, ProbeArgs, <<>>) IN
            [model |-> slot,
             raised |-> IF r.kind = "raise" THEN r.err ELSE "none",
             fwd |-> [called |-> TRUE, slot |-> slot, args |-> ProbeArgs,
                      kwargs |-> <<>>, result |-> r]]
  ELSE [model |-> slot, raised |-> "none", fwd |-> NoCall]

Advance_swallow(i, raised) ==
  IF i = Len(InitSequence) THEN [pc |-> "constructed", idx |-> i + 1]
  ELSE [pc |-> "init", idx |-> i + 1]

\* control flow of __init__ after statement i: an exception leaves __init__,
\* otherwise the next statement runs, and after the last one the task exists
Advance(i, raised) ==
  IF raised # "none" THEN [pc |-> "failed", idx |-> i]
  ELSE IF i = Len(InitSequence) THEN [pc |-> "constructed", idx |-> i + 1]
  ELSE [pc |-> "init", idx |-> i + 1]

Init ==
  /\ cls \in Classes
  /\ ctorArgs \in CtorArgSets
  /\ pc = "new"
  /\ idx = 0
  /\ calls = <<>>
  /\ model = Unset
  /\ hparams = <<>>
  /\ monitor = MonitorOf(cls)
  /\ err = NoErr
  /\ lastForward = NoCall
  /\ lastConfig = NoCall
  /\ nextId = 0

\* cls(...): ABC refuses a class with abstract methods before __init__ runs;
\* otherwise __init__ starts and super().__init__() returns
Instantiate ==
  /\ pc = "new"
  /\ IF AbstractMethods(cls) # {}
     THEN /\ pc' = "failed"
          /\ err' = [at |-> "new", type |-> "TypeError"]
          /\ idx' = idx
     ELSE /\ pc' = "init"
          /\ err' = err
          /\ idx' = 1
  /\ UNCHANGED <<cls, ctorArgs, calls, model, hparams, monitor, lastForward,
                 lastConfig, nextId>>

\* self.save_hyperparameters()
SaveHyperparameters ==
  /\ pc = "init"
  /\ idx \in 1..Len(InitSequence)
  /\ InitSequence[idx] = "save_hyperparameters"
  /\ hparams' = ctorArgs
  /\ calls' = Append(calls, "save_hyperparameters")
  /\ pc' = Advance(idx, "none").pc
  /\ idx' = Advance(idx, "none").idx
  /\ UNCHANGED <<cls, ctorArgs, model, monitor, err, lastForward, lastConfig,
                 nextId>>

\* one hook call of __init__: self.<h>()
CallHook(h) ==
  /\ pc = "init"
  /\ idx \in 1..Len(InitSequence)
  /\ InitSequence[idx] = h
  /\ LET e == HookEffect(BodyOf(cls, h), model) IN
       /\ model' = e.model
       /\ lastForward' = IF e.fwd.called THEN e.fwd ELSE lastForward
       /\ err' = IF e.raised # "none" THEN [at |-> h, type |-> e.raised] ELSE err
       /\ pc' = Advance(idx, e.raised).pc
       /\ idx' = Advance(idx, e.raised).idx
  /\ calls' = Append(calls, h)
  /\ UNCHANGED <<cls, ctorArgs, hparams, monitor, lastConfig, nextId>>

ConfigureLosses == CallHook("configure_losses")

ConfigureMetrics == CallHook("configure_metrics")

ConfigureModels == CallHook("configure_models")

\* ------------------------------------------------- the training loop
Forward_resets_model ==
  /\ pc = "constructed"
  /\ \E args \in ArgLists, kwargs \in KwargMaps :
       lastForward' = [called |-> TRUE, slot |-> model, args |-> args,
                       kwargs |-> kwargs,
                       result |-> forward(model, args, kwargs)]
  /\ model' = Unset
  /\ UNCHANGED <<cls, ctorArgs, pc, idx, calls, hparams, monitor, err,
                 lastConfig, nextId>>

\* task(*args, **kwargs) on the constructed task
Forward ==
  /\ pc = "constructed"
  /\ \E args \in ArgLists, kwargs \in KwargMaps :
       lastForward' = [called |-> TRUE, slot |-> model, args |-> args,
                       kwargs |-> kwargs,
                       result |-> forward(model, args, kwargs)]
  /\ UNCHANGED <<cls, ctorArgs, pc, idx, calls, model, hparams, monitor, err,
                 lastConfig, nextId>>

\* task.configure_optimizers() on the constructed task
ConfigureOptimizers ==
  /\ pc = "constructed"
  /\ nextId < MaxOptimizers
  /\ lastConfig' = [called |-> TRUE,
                    result |-> configure_optimizers(hparams, monitor,
                                                    Parameters(model), nextId)]
  /\ nextId' = IF "lr" \in DOMAIN hparams THEN nextId + 1 ELSE nextId
  /\ UNCHANGED <<cls, ctorArgs, pc, idx, calls, model, hparams, monitor, err,
                 lastForward>>

Next ==
  \/ Instantiate
  \/ SaveHyperparameters
  \/ ConfigureLosses
  \/ ConfigureMetrics
  \/ ConfigureModels
  \/ Forward
  \/ ConfigureOptimizers

Spec == Init /\ [][Next]_vars

\* ------------------------------------------------------------ properties
IsPrefix(s, t) == Len(s) <= Len(t) /\ \A i \in 1..Len(s) : s[i] = t[i]

ConstructionOrder ==
  <<"save_hyperparameters", "configure_losses", "configure_metrics",
    "configure_models">>

\* the calls __init__ has made when hook h is the last one it made
OrderUpTo(h) ==
  IF h = "configure_losses" THEN SubSeq(ConstructionOrder, 1, 2)
  ELSE IF h = "configure_metrics" THEN SubSeq(ConstructionOrder, 1, 3)
  ELSE ConstructionOrder

\* C1: construction saves the hyperparameters first and then calls
\* configure_losses, configure_metrics, configure_models in that order, each
\* once: at every moment the calls made so far are an initial part of that
\* order, a hook has run only after the hyperparameters were saved, and a
\* constructed task has made exactly the four calls.
C1_ConstructionOrder ==
  /\ IsPrefix(calls, ConstructionOrder)
  /\ (\E i \in 1..Len(calls) : calls[i] \in Hooks) => hparams = ctorArgs
  /\ pc = "constructed" => calls = ConstructionOrder

C1_Witness ==
  /\ pc = "constructed"
  /\ calls = ConstructionOrder
  /\ hparams = ctorArgs
  /\ DOMAIN ctorArgs = HparamKeys

\* C2 (as stated): for any subclass that overrides configure_models, whatever
\* the override does, the model is non-null once construction completes.
C2_Original ==
  (pc = "constructed" /\ cls.configure_models # "inherited")
     => model \notin {Unset, None}

\* C2 (amended): for any subclass whose configure_models override assigns a
\* non-null model, the model is non-null once construction completes.
C2_ModelSetWhenAssigned ==
  (pc = "constructed" /\ cls.configure_models \in {"assign_sum", "assign_scale"})
     => model \in Models

C2_Witness ==
  /\ pc = "constructed"
  /\ cls.configure_models = "assign_scale"
  /\ cls.configure_losses = "assign_none"
  /\ model = "m_scale"

\* C3: instantiating BaseTask itself, or a subclass that does not override
\* configure_models, fails with the abstract-method TypeError before __init__
\* does anything: nothing is saved, no hook runs, no task results.
C3_AbstractFails ==
  (cls.configure_models = "inherited" /\ pc # "new")
     => /\ pc = "failed"
        /\ err = [at |-> "new", type |-> "TypeError"]
        /\ calls = <<>>
        /\ hparams = <<>>
        /\ model = Unset

C3_Witness ==
  /\ pc = "failed"
  /\ err.type = "TypeError"
  /\ cls.configure_models = "inherited"
  /\ cls.configure_losses = "assign_sum"

\* C4: forward on a constructed task returns (or raises) exactly what the
\* model does for the same positional and keyword arguments.
C4_ForwardDelegates ==
  (pc = "constructed" /\ lastForward.called /\ lastForward.slot \in Models)
     => lastForward.result =
          ModelCall(lastForward.slot, lastForward.args, lastForward.kwargs)

C4_Witness ==
  /\ pc = "constructed"
  /\ lastForward.called
  /\ lastForward.slot = "m_sum"
  /\ lastForward.args = <<1, 2>>
  /\ lastForward.kwargs = [k \in {"bias"} |-> 2]
  /\ lastForward.result = Return(5)

\* C5: with lr and patience among the hyperparameters, configure_optimizers
\* returns a configuration whose optimizer has that lr, whose scheduler has
\* that patience and wraps the returned optimizer, and whose monitored key is
\* "val_loss" unless the subclass overrides monitor.
C5_OptimizerConfig ==
  (lastConfig.called /\ HparamKeys \subseteq DOMAIN hparams)
     => /\ lastConfig.result.kind = "return"
        /\ LET cfg == lastConfig.result.value IN
             /\ cfg.optimizer.lr = hparams["lr"]
             /\ cfg.lr_scheduler.scheduler.patience = hparams["patience"]
             /\ cfg.lr_scheduler.scheduler.optimizer = cfg.optimizer
             /\ cls.monitor = "inherited" => cfg.lr_scheduler.monitor = "val_loss"

C5_Witness ==
  /\ lastConfig.called
  /\ hparams = [k \in HparamKeys |-> IF k = "lr" THEN 3 ELSE 5]
  /\ cls.monitor = "inherited"
  /\ lastConfig.result.kind = "return"
  /\ lastConfig.result.value.optimizer.lr = 3

\* C6: when lr, patience or both are missing from the hyperparameters,
\* configure_optimizers raises KeyError and returns no configuration.
C6_MissingKeyFails ==
  (lastConfig.called /\ ~(HparamKeys \subseteq DOMAIN hparams))
     => lastConfig.result = Raise("KeyError")

C6_Witness ==
  /\ lastConfig.called
  /\ DOMAIN hparams = {"lr"}
  /\ lastConfig.result.kind = "raise"

\* C7: when the subclass overrides monitor, the configuration returned by
\* configure_optimizers monitors the overriding name and not "val_loss".
C7_MonitorOverride ==
  (lastConfig.called /\ cls.monitor # "inherited"
     /\ lastConfig.result.kind = "return")
     => /\ lastConfig.result.value.lr_scheduler.monitor = cls.monitor
        /\ lastConfig.result.value.lr_scheduler.monitor # "val_loss"

C7_Witness ==
  /\ lastConfig.called
  /\ cls.monitor = "val_acc"
  /\ lastConfig.result.kind = "return"
  /\ lastConfig.result.value.lr_scheduler.monitor = "val_acc"

\* C8: a forward call made while the model attribute has not been assigned,
\* also one made from inside a hook during construction, raises
\* AttributeError and returns no value.
C8_ForwardBeforeModel ==
  (lastForward.called /\ lastForward.slot = Unset)
     => lastForward.result = Raise("AttributeError")

C8_Witness ==
  /\ lastForward.called
  /\ lastForward.slot = Unset
  /\ err = [at |-> "configure_losses", type |-> "AttributeError"]
  /\ pc = "failed"

\* C9: once the task is constructed, no step (forward, configure_optimizers)
\* changes the model slot, monitor or hyperparameters, and no step calls a
\* configuration hook again.
C9_FrameAfterConstruction ==
  [][pc = "constructed"
       => /\ model' = model
          /\ monitor' = monitor
          /\ hparams' = hparams
          /\ calls' = calls
          /\ pc' = "constructed"]_vars

C9_Witness ==
  /\ pc = "constructed"
  /\ lastForward.called
  /\ lastForward.args # ProbeArgs
  /\ lastConfig.called
  /\ nextId = 2
  /\ model \in Models

\* C10: when a hook raises during construction, construction has failed with
\* that error, the calls made are exactly those up to the failing hook (it is
\* not called again and no later hook is called), and no task results.
C10_HookFailureIsFatal ==
  err.at \in Hooks
     => /\ pc = "failed"
        /\ calls = OrderUpTo(err.at)
        /\ err.type \in {"RuntimeError", "AttributeError", "TypeError"}
        /\ ~lastConfig.called

C10_Witness ==
  /\ err = [at |-> "configure_metrics", type |-> "RuntimeError"]
  /\ pc = "failed"
  /\ calls = SubSeq(ConstructionOrder, 1, 3)
  /\ model = "m_sum"
====
